---- MODULE Spec2Model ----
(***************************************************************************)
(* Model of the BOOTP/DHCP datagram decoder of dhcp-rs                     *)
(* (src/src/dhcp_packet.rs) and of its receive loop (src/src/main.rs).     *)
(*                                                                         *)
(* A parser of the source is a function from an input slice to             *)
(* nom::IResult.  Here a slice is a pair (b, p): the datagram b and the    *)
(* number p of bytes already consumed, and an IResult is a record          *)
(*   [st, pos, val]   with st one of                                       *)
(*     "ok"          Ok((rest, val)), rest = b from offset pos             *)
(*     "error"       Err(nom::Err::Error(_)), the recoverable error        *)
(*     "incomplete"  Err(nom::Err::Incomplete(_))                          *)
(*     "panic"       the parser panicked (panic!, Option/Result::unwrap)   *)
(* Offsets are 0-based as in the source; b[p + 1] is the byte at offset p. *)
(***************************************************************************)
EXTENDS Integers, Sequences, FiniteSets, TLC

(***************************************************************************)
(* nom combinators, as the source instantiates them                        *)
(***************************************************************************)
Ok(p, v) == [st |-> "ok", pos |-> p, val |-> v]
Err(kind, p) == [st |-> kind, pos |-> p, val |-> <<>>]

Remaining(b, p) == Len(b) - p

\* nom::number::complete::be_u8 / be_u16 / be_u32
be_u8(b, p) ==
    IF Remaining(b, p) >= 1 THEN Ok(p + 1, b[p + 1]) ELSE Err("error", p)

be_u16(b, p) ==
    IF Remaining(b, p) >= 2
    THEN Ok(p + 2, b[p + 1] * 256 + b[p + 2])
    ELSE Err("error", p)

\* A u32 is <<its high 16 bits, its low 16 bits>>: TLC's integers are 32-bit
\* signed and cannot hold it in one number.
be_u32(b, p) ==
    IF Remaining(b, p) >= 4
    THEN Ok(p + 4, <<b[p + 1] * 256 + b[p + 2], b[p + 3] * 256 + b[p + 4]>>)
    ELSE Err("error", p)

\* nom::bytes::complete::take(n)
take(n, b, p) ==
    IF Remaining(b, p) >= n
    THEN Ok(p + n, SubSeq(b, p + 1, p + n))
    ELSE Err("error", p)

\* nom::bytes::streaming::take(n), the one nom::multi::length_data uses
take_streaming(n, b, p) ==
    IF Remaining(b, p) >= n
    THEN Ok(p + n, SubSeq(b, p + 1, p + n))
    ELSE Err("incomplete", p)

U8 == 0..255

\* nom::combinator::verify(first, second): r is the result of first on the
\* slice at offset p, second the test of its value
verify(r, second, p) ==
    IF r.st /= "ok" THEN r
    ELSE IF second[r.val] THEN r ELSE Err("error", p)

\* verify(be_u8, move |x| function(*x)), function a fn(u8) -> bool
verify_option_length(function, b, p) == verify(be_u8(b, p), function, p)

\* The data of length_data: l is the result of the length parser
length_data_take(l, b) ==
    IF l.st /= "ok" THEN l ELSE take_streaming(l.val, b, l.pos)

\* length_data(f): f reads the length, then the streaming take reads the data
length_data(function, b, p) ==
    length_data_take(verify_option_length(function, b, p), b)

\* length_data(be_u8): every length passes
AnyLength == [x \in U8 |-> TRUE]

(***************************************************************************)
(* Primitive field decoders                                                *)
(***************************************************************************)
\* Ipv4Addr::new(x[0], x[1], x[2], x[3]): the address as its four octets
Ipv4Addr_new(a, b, c, d) == <<a, b, c, d>>

\* Option<Ipv4Addr>: None is <<>>, Some(a) is <<a>>
None == <<>>
Some(a) == <<a>>

take4(b, p) == take(4, b, p)

parse_ipv4(b, p) ==
    LET r == take4(b, p)
    IN  IF r.st /= "ok" THEN r
        ELSE IF r.val = <<0, 0, 0, 0>> THEN Ok(r.pos, None)
        ELSE Ok(r.pos, Some(Ipv4Addr_new(r.val[1], r.val[2], r.val[3], r.val[4])))

new_macaddr(x) == <<x[1], x[2], x[3], x[4], x[5], x[6]>>

\* parse_chaddr skipping one byte too few after the MAC address
parse_chaddr_short(b, p) ==
    LET r == take(6, b, p)
    IN  IF r.st /= "ok" THEN r
        ELSE LET s == take(9, b, r.pos)
             IN  IF s.st /= "ok" THEN s ELSE Ok(s.pos, new_macaddr(r.val))

\* terminated(map(take(6), new_macaddr), take(10))
parse_chaddr(b, p) ==
    LET r == take(6, b, p)
    IN  IF r.st /= "ok" THEN r
        ELSE LET s == take(10, b, r.pos)
             IN  IF s.st /= "ok" THEN s ELSE Ok(s.pos, new_macaddr(r.val))

BootpOpcode_parse(b, p) ==
    LET r == be_u8(b, p)
    IN  IF r.st /= "ok" THEN r
        ELSE IF r.val = 1 THEN Ok(r.pos, "BootRequest")
        ELSE IF r.val = 2 THEN Ok(r.pos, "BootReply")
        ELSE Err("panic", p)

\* value(ArpHardwareTypes::Ethernet, tag([1]))
parse_dhcp_hwarp(b, p) ==
    IF Remaining(b, p) >= 1 /\ b[p + 1] = 1
    THEN Ok(p + 1, "Ethernet")
    ELSE Err("error", p)

BroadcastFlag == 32768

parse_flags(b, p) ==
    LET r == be_u16(b, p)
    IN  IF r.st /= "ok" THEN r
        ELSE IF r.val = BroadcastFlag THEN Ok(r.pos, TRUE)
        ELSE IF r.val = 0 THEN Ok(r.pos, FALSE)
        ELSE Err("panic", p)

MagicCookie == <<99, 130, 83, 99>>

\* The cookie test comparing the first three bytes only
CookieMatchesPrefix(x) == Len(x) = 4 /\ SubSeq(x, 1, 3) = SubSeq(MagicCookie, 1, 3)

CookieMatches(x) == Len(x) = 4 /\ x = MagicCookie

\* verify(take(4), |x| x.len() == 4 && x == [0x63, 0x82, 0x53, 0x63])
parse_cookie(b, p) ==
    LET r == take(4, b, p)
    IN  IF r.st /= "ok" THEN r
        ELSE IF CookieMatches(r.val) THEN r ELSE Err("error", p)

ReservedLen == 192

\* The second parser of terminated(parse_chaddr, take(192))
take_reserved(b, p) == take(ReservedLen, b, p)

(***************************************************************************)
(* Option identifier registry                                              *)
(***************************************************************************)
DHCP_OPTION_SUBNETMASK == 1
DHCP_OPTION_ROUTER == 3
DHCP_OPTION_DNSSERVER == 6
DHCP_OPTION_HOSTNAME == 12
DHCP_OPTION_DOMAINNAME == 15
DHCP_OPTION_INTERFACEMTU == 26
DHCP_OPTION_BROADCAST_ADDR == 28
DHCP_OPTION_LEASETIME == 51
DHCP_OPTION_MSGTYPE == 53
DHCP_OPTION_SERVERID == 54
DHCP_OPTION_PARAM_REQUEST_LIST == 55
DHCP_OPTION_MAX_MSG_SIZE == 57
DHCP_OPTION_RENEWAL_INTERVAL == 58
DHCP_OPTION_REBINDING_INTERVAL == 59
DHCP_OPTION_VENDOR_CLASS_ID == 60
DHCP_OPTION_CLIENT_IDENTIFIER == 61
DHCP_OPTION_RAPID_COMMIT == 80
DHCP_OPTION_DOMAIN_SEARCH == 119
DHCP_OPTION_FORCE_RENEW_NONCE_CAP == 145
DHCP_OPTION_END == 255
DHCP_OPTION_PAD == 0

\* A DhcpOptionID: the variant, and the payload of Other(u8) (0 elsewhere).
\* The derived Eq/Hash compare exactly these two.
Named(n) == [name |-> n, other |-> 0]
Other(o) == [name |-> "Other", other |-> o]

OptionEnd == Named("OptionEnd")
Pad == Named("Pad")

DhcpOptionID_from(id) ==
    CASE id = DHCP_OPTION_SUBNETMASK -> Named("SubnetMask")
      [] id = DHCP_OPTION_ROUTER -> Named("Router")
      [] id = DHCP_OPTION_DNSSERVER -> Named("DNSserver")
      [] id = DHCP_OPTION_HOSTNAME -> Named("HostName")
      [] id = DHCP_OPTION_DOMAINNAME -> Named("DomainName")
      [] id = DHCP_OPTION_INTERFACEMTU -> Named("InterfaceMTU")
      [] id = DHCP_OPTION_BROADCAST_ADDR -> Named("BroadcastAddr")
      [] id = DHCP_OPTION_LEASETIME -> Named("LeaseTime")
      [] id = DHCP_OPTION_MSGTYPE -> Named("MsgType")
      [] id = DHCP_OPTION_SERVERID -> Named("ServerID")
      [] id = DHCP_OPTION_PARAM_REQUEST_LIST -> Named("ParameterRequestList")
      [] id = DHCP_OPTION_MAX_MSG_SIZE -> Named("MaxMsgSize")
      [] id = DHCP_OPTION_RENEWAL_INTERVAL -> Named("RenewalInterval")
      [] id = DHCP_OPTION_REBINDING_INTERVAL -> Named("RebindingInterval")
      [] id = DHCP_OPTION_VENDOR_CLASS_ID -> Named("VendorClassId")
      [] id = DHCP_OPTION_CLIENT_IDENTIFIER -> Named("ClientIdentifier")
      [] id = DHCP_OPTION_RAPID_COMMIT -> Named("RapidCommit")
      [] id = DHCP_OPTION_DOMAIN_SEARCH -> Named("DomainSearch")
      [] id = DHCP_OPTION_FORCE_RENEW_NONCE_CAP -> Named("ForceRenewNonceCap")
      [] id = DHCP_OPTION_END -> OptionEnd
      [] id = DHCP_OPTION_PAD -> Pad
      [] OTHER -> Other(id)

(***************************************************************************)
(* Option value decoder.  A DhcpOption is [kind, val]: the enum variant    *)
(* and its payload.                                                        *)
(***************************************************************************)
Opt(k, v) == [kind |-> k, val |-> v]

\* DhcpDuration::new(s, n)
DhcpDuration_new(s, n) == [secs |-> s, nanos |-> n]

\* std::str::from_utf8: TRUE iff x[i..] is well-formed UTF-8
IsCont(x, i, lo, hi) == i <= Len(x) /\ x[i] >= lo /\ x[i] <= hi

\* The number of bytes of the well-formed UTF-8 sequence that starts at
\* x[i], 0 if none does
Utf8Width(x, i) ==
    LET c == x[i]
    IN  CASE c <= 127 -> 1
          [] c >= 194 /\ c <= 223 ->
                IF IsCont(x, i + 1, 128, 191) THEN 2 ELSE 0
          [] c >= 224 /\ c <= 239 ->
                IF /\ IsCont(x, i + 1, IF c = 224 THEN 160 ELSE 128,
                                       IF c = 237 THEN 159 ELSE 191)
                   /\ IsCont(x, i + 2, 128, 191)
                THEN 3 ELSE 0
          [] c >= 240 /\ c <= 244 ->
                IF /\ IsCont(x, i + 1, IF c = 240 THEN 144 ELSE 128,
                                       IF c = 244 THEN 143 ELSE 191)
                   /\ IsCont(x, i + 2, 128, 191)
                   /\ IsCont(x, i + 3, 128, 191)
                THEN 4 ELSE 0
          [] OTHER -> 0

RECURSIVE Utf8ValidFrom(_, _)
Utf8ValidFrom(x, i) ==
    IF i > Len(x) THEN TRUE
    ELSE LET n == Utf8Width(x, i)
         IN  IF n = 0 THEN FALSE ELSE Utf8ValidFrom(x, i + n)

\* map(length_data(verify_option_length(|x| x > 0)),
\*     |x| String::from_utf8(x.to_vec()).unwrap())
parse_string(b, p) ==
    LET r == length_data([x \in U8 |-> x > 0], b, p)
    IN  IF r.st /= "ok" THEN r
        ELSE IF Utf8ValidFrom(r.val, 1) THEN r ELSE Err("panic", p)

\* fold_many0(parse_ipv4, Vec::new(), |addrs, addr| addrs.push(addr.unwrap()))
\* over the slice x from offset p, addrs being the addresses pushed so far
RECURSIVE parse_ipv4_list(_, _, _)
parse_ipv4_list(x, p, addrs) ==
    LET r == parse_ipv4(x, p)
    IN  IF r.st /= "ok" THEN Ok(p, addrs)
        ELSE IF r.val = None THEN Err("panic", p)
        ELSE parse_ipv4_list(x, r.pos, Append(addrs, r.val[1]))

\* map_parser(length_data(verify_option_length(|x| x >= 4 && x % 4 == 0)),
\*            parse_ipv4_list)
parse_ipv4_option_list(b, p) ==
    LET r == length_data([x \in U8 |-> x >= 4 /\ (x % 4) = 0], b, p)
    IN  IF r.st /= "ok" THEN r
        ELSE LET l == parse_ipv4_list(r.val, 0, <<>>)
             IN  IF l.st /= "ok" THEN Err(l.st, p) ELSE Ok(r.pos, l.val)

DhcpMessageTypeName(x) ==
    CASE x = 1 -> "DhcpDiscover"
      [] x = 2 -> "DhcpOffer"
      [] x = 3 -> "DhcpRequest"
      [] x = 4 -> "DhcpDecline"
      [] x = 5 -> "DhcpAck"
      [] x = 6 -> "DhcpNak"
      [] x = 7 -> "DhcpRelease"
      [] x = 8 -> "DhcpInform"
      [] x = 9 -> "DhcpForceRenew"
      [] OTHER -> "panic"

\* map(preceded(verify_option_length(|x| x == 1), be_u8), |x| match x {..})
DhcpMessageType_parse(b, p) ==
    LET l == verify_option_length([x \in U8 |-> x = 1], b, p)
    IN  IF l.st /= "ok" THEN l
        ELSE LET r == be_u8(b, l.pos)
             IN  IF r.st /= "ok" THEN r
                 ELSE IF DhcpMessageTypeName(r.val) = "panic" THEN Err("panic", p)
                 ELSE Ok(r.pos, DhcpMessageTypeName(r.val))

\* DhcpBytes::parse
DhcpBytes_parse(b, p) == length_data([x \in U8 |-> x > 2], b, p)

DhcpForceRenewNonceAlgos_parse(byte) ==
    IF byte = 1 THEN [algo |-> "HmacMd5", other |-> 0]
    ELSE [algo |-> "Other", other |-> byte]

DhcpForceRenewNonceCapable_parse(b, p) ==
    LET r == length_data([x \in U8 |-> x > 0], b, p)
    IN  IF r.st /= "ok" THEN r
        ELSE Ok(r.pos, [i \in 1..Len(r.val) |->
                            DhcpForceRenewNonceAlgos_parse(r.val[i])])

DhcpOptionIDs_parse(b, p) ==
    LET r == length_data(AnyLength, b, p)
    IN  IF r.st /= "ok" THEN r
        ELSE Ok(r.pos, [i \in 1..Len(r.val) |-> DhcpOptionID_from(r.val[i])])

\* The 16-bit read without the test of the length byte
len2_be_u16_unchecked(b, p) ==
    LET l == verify_option_length(AnyLength, b, p)
    IN  IF l.st /= "ok" THEN l ELSE be_u16(b, l.pos)

\* preceded(verify_option_length(|x| x == 2), be_u16)
len2_be_u16(b, p) ==
    LET l == verify_option_length([x \in U8 |-> x = 2], b, p)
    IN  IF l.st /= "ok" THEN l ELSE be_u16(b, l.pos)

\* preceded(verify_option_length(|x| x == 4), be_u32)
len4_be_u32(b, p) ==
    LET l == verify_option_length([x \in U8 |-> x = 4], b, p)
    IN  IF l.st /= "ok" THEN l ELSE be_u32(b, l.pos)

\* map(preceded(verify_option_length(|x| x == 4), parse_ipv4), |x| x.unwrap())
len4_ipv4_unwrap(b, p) ==
    LET l == verify_option_length([x \in U8 |-> x = 4], b, p)
    IN  IF l.st /= "ok" THEN l
        ELSE LET r == parse_ipv4(b, l.pos)
             IN  IF r.st /= "ok" THEN r
                 ELSE IF r.val = None THEN Err("panic", p)
                 ELSE Ok(r.pos, r.val[1])

MinMaxMsgSize == 576

\* preceded(verify_option_length(|x| x == 2), verify(be_u16, |x| *x >= 576))
parse_max_msg_size(b, p) ==
    LET r == len2_be_u16(b, p)
    IN  IF r.st /= "ok" THEN r
        ELSE IF r.val >= MinMaxMsgSize THEN r ELSE Err("error", p)

\* map(parser, |x| variant(x))
MapOpt(r, k) == IF r.st /= "ok" THEN r ELSE Ok(r.pos, Opt(k, r.val))

MapDuration(r, k) ==
    IF r.st /= "ok" THEN r ELSE Ok(r.pos, Opt(k, DhcpDuration_new(r.val, 0)))

\* The Pad arm reading a length byte and a value, as the other options do
PadArmWithLength(b, p) ==
    LET r == length_data(AnyLength, b, p)
    IN  IF r.st /= "ok" THEN r ELSE Ok(r.pos, Opt("Pad", <<>>))

\* The Pad arm: Ok((buf, DhcpOption::Pad)), nothing consumed
PadArm(b, p) == Ok(p, Opt("Pad", <<>>))

\* The OptionEnd arm: Ok((buf, DhcpOption::End)), nothing consumed
EndArm(b, p) == Ok(p, Opt("End", <<>>))

DhcpOption_parse(option_id, b, p) ==
    LET n == option_id.name
    IN  CASE n = "Router" -> MapOpt(parse_ipv4_option_list(b, p), "Router")
          [] n = "DNSserver" -> MapOpt(parse_ipv4_option_list(b, p), "DNSserver")
          [] n = "HostName" -> MapOpt(parse_string(b, p), "HostName")
          [] n = "DomainName" -> MapOpt(parse_string(b, p), "DomainName")
          [] n = "InterfaceMTU" -> MapOpt(len2_be_u16(b, p), "InterfaceMTU")
          [] n = "BroadcastAddr" -> MapOpt(len4_ipv4_unwrap(b, p), "BroadcastAddr")
          [] n = "LeaseTime" -> MapDuration(len4_be_u32(b, p), "LeaseTime")
          [] n = "MsgType" -> MapOpt(DhcpMessageType_parse(b, p), "MessageType")
          [] n = "OptionEnd" -> EndArm(b, p)
          [] n = "ServerID" -> MapOpt(len4_ipv4_unwrap(b, p), "ServerID")
          [] n = "ParameterRequestList" ->
                MapOpt(DhcpOptionIDs_parse(b, p), "ParameterRequestList")
          [] n = "SubnetMask" -> MapOpt(len4_be_u32(b, p), "SubNetMask")
          [] n = "MaxMsgSize" -> MapOpt(parse_max_msg_size(b, p), "MaxMsgSize")
          [] n = "RenewalInterval" ->
                MapDuration(len4_be_u32(b, p), "RenewalPeriod")
          [] n = "RebindingInterval" ->
                MapDuration(len4_be_u32(b, p), "RebindingPeriod")
          [] n = "VendorClassId" -> MapOpt(parse_string(b, p), "VendorClassId")
          [] n = "ClientIdentifier" ->
                MapOpt(DhcpBytes_parse(b, p), "ClientIdentifier")
          [] n = "RapidCommit" ->
                LET l == verify_option_length([x \in U8 |-> x = 0], b, p)
                IN  IF l.st /= "ok" THEN l ELSE Ok(l.pos, Opt("RapidCommit", <<>>))
          [] n = "ForceRenewNonceCap" ->
                MapOpt(DhcpForceRenewNonceCapable_parse(b, p),
                       "ForceRenewNonceCapable")
          [] n = "DomainSearch" ->
                MapOpt(length_data(AnyLength, b, p), "DomainSearch")
          [] n = "Pad" -> PadArm(b, p)
          [] n = "Other" ->
                LET r == length_data(AnyLength, b, p)
                IN  IF r.st /= "ok" THEN r
                    ELSE Ok(r.pos, Opt("Other", [option_id |-> option_id.other,
                                                 option |-> r.val]))

\* Ok((buf2, (option_id, option))), r being the result of DhcpOption::parse
OptionPair(option_id, r, p) ==
    IF r.st /= "ok" THEN Err(r.st, p)
    ELSE Ok(r.pos, [id |-> option_id, opt |-> r.val])

\* parse_dhcp_option after be_u8(buf)?, c being the result of be_u8
OptionAfterCode(c, b, p) ==
    IF c.st /= "ok" THEN c
    ELSE OptionPair(DhcpOptionID_from(c.val),
                    DhcpOption_parse(DhcpOptionID_from(c.val), b, c.pos), p)

parse_dhcp_option(b, p) == OptionAfterCode(be_u8(b, p), b, p)

(***************************************************************************)
(* Option-stream decoder: fold_many0(parse_dhcp_option, HashMap::new(), g) *)
(***************************************************************************)
\* An insert that keeps the value of a key already present
InsertIfAbsent(options, k, v) ==
    [x \in DOMAIN options \cup {k} |-> IF x \in DOMAIN options THEN options[x] ELSE v]

\* HashMap::insert
Insert(options, k, v) ==
    [x \in DOMAIN options \cup {k} |-> IF x = k THEN v ELSE options[x]]

\* The closure g of parse_dhcp_options
OptionsClosure(options, option) ==
    IF option.id = OptionEnd THEN options
    ELSE IF option.id = Pad THEN options
    ELSE Insert(options, option.id, option.opt)

\* A fold that hands its parser's error on instead of ending the loop
fold_status_strict(st) == IF st = "ok" THEN "continue" ELSE st

\* What fold_many0 does with the status of one call of its parser:
\* "continue" to fold the value and loop, else the status it returns with.
fold_many0_status(st) ==
    CASE st = "ok" -> "continue"
      [] st = "error" -> "ok"
      [] OTHER -> st

\* parse_dhcp_options from offset p with the mapping built so far; FoldTrip
\* is one trip of the loop of fold_many0, r being the result of
\* parse_dhcp_option on the slice at p.
RECURSIVE parse_dhcp_options(_, _, _)
RECURSIVE FoldTrip(_, _, _, _)
FoldTrip(r, b, p, options) ==
    IF fold_many0_status(r.st) = "continue"
    THEN IF r.pos = p THEN Err("error", p)
         ELSE parse_dhcp_options(b, r.pos, OptionsClosure(options, r.val))
    ELSE IF fold_many0_status(r.st) = "ok" THEN Ok(p, options)
    ELSE Err(fold_many0_status(r.st), p)

parse_dhcp_options(b, p, options) ==
    FoldTrip(parse_dhcp_option(b, p), b, p, options)

(***************************************************************************)
(* Datagrams the socket may deliver                                        *)
(***************************************************************************)
MaxOpts == 3

Zero4 == <<0, 0, 0, 0>>

\* The fixed header, fields f, with n bytes in the sname/file region
HeaderWith(f, n) ==
    <<f.op, f.htype, 6, 2>> \o <<18, 52, 86, 120>> \o <<1, 44>> \o f.flags
        \o f.ciaddr \o <<10, 0, 0, 7>> \o Zero4 \o <<10, 0, 0, 254>>
        \o <<170, 187, 204, 221, 238, 255>> \o [i \in 1..10 |-> 99]
        \o [i \in 1..n |-> IF i % 2 = 0 THEN 130 ELSE 99] \o f.cookie

Header(f) == HeaderWith(f, ReservedLen)

GoodFields ==
    [op |-> 1, htype |-> 1, flags |-> <<128, 0>>, ciaddr |-> <<192, 168, 1, 5>>,
     cookie |-> MagicCookie]

\* Cookies that differ from the magic cookie in one position, or in all
BadCookies ==
    {<<98, 130, 83, 99>>, <<99, 131, 83, 99>>, <<99, 130, 0, 99>>,
     <<99, 130, 83, 98>>, <<0, 0, 0, 0>>}

HeaderFields ==
    [op : {1, 2, 3}, htype : {1, 6}, flags : {<<0, 0>>, <<128, 0>>, <<0, 1>>},
     ciaddr : {Zero4, <<192, 168, 1, 5>>}, cookie : {MagicCookie} \cup BadCookies]

\* Option chunks met in any number
CoreChunks ==
    {<<0>>, <<255>>, <<12, 1, 65>>, <<12, 2, 66, 67>>, <<200, 1, 7>>, <<200, 2, 9, 9>>}

\* Option chunks met at most once in a stream
EdgeChunks ==
    {<<53, 1, 5>>, <<53, 2, 1, 1>>, <<53, 1, 0>>, <<12, 2, 65, 255>>, <<12>>,
     <<3, 8, 192, 168, 1, 1, 192, 168, 1, 2>>, <<3, 6, 192, 168, 1, 1, 192, 168>>,
     <<3, 4, 0, 0, 0, 0>>, <<3, 0>>, <<6, 4, 8, 8, 4, 4>>,
     <<26, 2, 5, 220>>, <<26, 3, 5, 220, 0>>, <<57, 2, 2, 63>>, <<57, 2, 2, 64>>,
     <<51, 4, 0, 0>>, <<54, 4, 0, 0, 0, 0>>, <<1, 4, 255, 255, 255, 0>>,
     <<80, 0>>, <<200, 5, 1>>, <<145, 2, 1, 2>>}

\* Option chunks met only alone
LoneChunks ==
    {<<53, 1, 10>>, <<53, 1, 9>>, <<12, 2, 195, 169>>, <<12, 0>>,
     <<3, 8, 10, 0, 0, 1, 0, 0, 0, 0>>, <<3, 2, 10, 0>>, <<3, 12, 1, 1, 1, 1>>,
     <<6, 2, 8, 8>>, <<6, 8, 8, 8, 8, 8, 1, 1, 1, 1>>, <<6, 5, 8, 8, 8, 8, 1>>,
     <<51, 4, 0, 1, 81, 128>>, <<28, 4, 192, 168, 1, 255>>, <<28, 4, 0, 0, 0, 0>>,
     <<58, 4, 0, 0, 14, 16>>, <<59, 4, 0, 0, 28, 32>>, <<80, 1, 0>>,
     <<61, 3, 1, 2, 3>>, <<61, 2, 1, 2>>, <<55, 3, 1, 3, 77>>, <<119, 0>>,
     <<15, 1, 97>>, <<60, 1, 77>>, <<201, 0>>, <<1, 3, 255, 255, 255>>}

\* Streams of at most n chunks, with an edge chunk in them only if edge
RECURSIVE StreamsOf(_, _)
StreamsOf(n, edge) ==
    IF n = 0 THEN {<<>>}
    ELSE {<<>>}
         \cup {c \o s : c \in CoreChunks, s \in StreamsOf(n - 1, edge)}
         \cup IF edge
              THEN {e \o s : e \in EdgeChunks, s \in StreamsOf(n - 1, FALSE)}
              ELSE {}

Streams == StreamsOf(MaxOpts, TRUE) \cup LoneChunks

\* The streams that follow the headers other than the good one
FewStreams == {<<>>, <<12, 1, 65>>, <<53, 1, 5, 255>>}

\* Datagrams cut short inside the header
TruncatedAt == {0, 1, 2, 3, 4, 8, 10, 11, 12, 27, 28, 43, 44, 235, 236, 239}

Datagrams ==
    {Header(GoodFields) \o s : s \in Streams}
        \cup {Header(f) \o s : f \in HeaderFields, s \in FewStreams}
        \cup {HeaderWith(GoodFields, n) \o s :
                n \in {ReservedLen - 1, ReservedLen + 1}, s \in FewStreams}
        \cup {SubSeq(Header(GoodFields), 1, n) : n \in TruncatedAt}

(***************************************************************************)
(* State                                                                   *)
(***************************************************************************)
VARIABLES
    mainpc,     \* main: "recv" (line 14), "parse" (line 15-17), "aborted"
    pc,         \* DhcpPacket::parse: the tuple element to run next, or "done"
    buf,        \* &buf[0..number_of_bytes]
    pos,        \* bytes of buf consumed so far
    hdr,        \* the tuple elements parsed so far, by field
    options,    \* the accumulator of fold_many0 in parse_dhcp_options
    result,     \* what DhcpPacket::parse came to: "none" while it runs, then
                \* "ok", "error", "incomplete" or "panic"
    packet,     \* <<the DhcpPacket>> once parse returned Ok, else <<>>
    trace,      \* history: <<field, offset it was read at>> in reading order
    decoded,    \* history: the options parse_dhcp_option returned Ok for
    failedAt    \* history: offset of the option code whose decode returned
                \* an Err, -1 if none

vars == <<mainpc, pc, buf, pos, hdr, options, result, packet, trace, decoded, failedAt>>

Init ==
    /\ mainpc = "recv"
    /\ pc = "idle"
    /\ buf = <<>>
    /\ pos = 0
    /\ hdr = <<>>
    /\ options = <<>>
    /\ result = "none"
    /\ packet = <<>>
    /\ trace = <<>>
    /\ decoded = <<>>
    /\ failedAt = -1

(***************************************************************************)
(* main, line 14: recv_from fills buf with a datagram                      *)
(***************************************************************************)
Recv ==
    /\ mainpc = "recv"
    /\ \E d \in Datagrams : buf' = d
    /\ mainpc' = "parse"
    /\ pc' = "opcode"
    /\ UNCHANGED <<pos, hdr, options, result, packet, trace, decoded, failedAt>>

(***************************************************************************)
(* DhcpPacket::parse: the elements of the tuple, in order                  *)
(***************************************************************************)
\* One parser of the tuple: r is its result on (buf, pos), kept in the tuple
\* if keep and discarded (terminated, the |_| of the closure) if not
TupleElement(cur, r, next, keep) ==
    /\ mainpc = "parse"
    /\ pc = cur
    /\ trace' = Append(trace, <<cur, pos>>)
    /\ CASE r.st = "ok" ->
              /\ pos' = r.pos
              /\ hdr' = IF keep THEN (cur :> r.val) @@ hdr ELSE hdr
              /\ pc' = next
              /\ UNCHANGED <<mainpc, result>>
         [] r.st = "panic" ->
              /\ result' = "panic"
              /\ pc' = "done"
              /\ mainpc' = "aborted"
              /\ UNCHANGED <<pos, hdr>>
         [] OTHER ->
              /\ result' = r.st
              /\ pc' = "done"
              /\ UNCHANGED <<mainpc, pos, hdr>>
    /\ UNCHANGED <<buf, options, packet, decoded, failedAt>>

ParseOpcode == TupleElement("opcode", BootpOpcode_parse(buf, pos), "htype", TRUE)
ParseHwarp == TupleElement("htype", parse_dhcp_hwarp(buf, pos), "hlen", TRUE)
ParseHlen == TupleElement("hlen", be_u8(buf, pos), "hops", TRUE)
ParseHops == TupleElement("hops", be_u8(buf, pos), "xid", TRUE)
ParseXid == TupleElement("xid", be_u32(buf, pos), "secs", TRUE)
ParseSecs == TupleElement("secs", be_u16(buf, pos), "flags", TRUE)
ParseFlags == TupleElement("flags", parse_flags(buf, pos), "ciaddr", TRUE)
ParseCiaddr == TupleElement("ciaddr", parse_ipv4(buf, pos), "yiaddr", TRUE)
ParseYiaddr == TupleElement("yiaddr", parse_ipv4(buf, pos), "siaddr", TRUE)
ParseSiaddr == TupleElement("siaddr", parse_ipv4(buf, pos), "giaddr", TRUE)
ParseGiaddr == TupleElement("giaddr", parse_ipv4(buf, pos), "chaddr", TRUE)
ParseChaddr == TupleElement("chaddr", parse_chaddr(buf, pos), "reserved", TRUE)
TakeReserved == TupleElement("reserved", take_reserved(buf, pos), "cookie", FALSE)
VerifyCookie == TupleElement("cookie", parse_cookie(buf, pos), "options", FALSE)

\* The closure of map in DhcpPacket::parse
NewPacket(h, opts) ==
    [ciaddr |-> h.ciaddr, yiaddr |-> h.yiaddr, siaddr |-> h.siaddr,
     giaddr |-> h.giaddr, opcode |-> h.opcode, hops |-> h.hops, hlen |-> h.hlen,
     htype |-> h.htype, xid |-> h.xid, secs |-> DhcpDuration_new(h.secs, 0),
     broadcast |-> h.flags, chaddr |-> h.chaddr, options |-> opts]

\* One trip of the loop of fold_many0 in parse_dhcp_options, r being the
\* result of parse_dhcp_option and s what fold_many0 does with it; on the
\* trip that ends the loop the tuple is complete and parse returns.
OptionTrip(r, s) ==
    /\ mainpc = "parse"
    /\ pc = "options"
    /\ trace' = IF trace[Len(trace)][1] = "options"
                THEN trace
                ELSE Append(trace, <<"options", pos>>)
    /\ CASE s = "continue" /\ r.pos /= pos ->
              /\ options' = OptionsClosure(options, r.val)
              /\ decoded' = Append(decoded, [id |-> r.val.id, opt |-> r.val.opt,
                                             at |-> pos, next |-> r.pos])
              /\ pos' = r.pos
              /\ UNCHANGED <<mainpc, pc, result, packet, failedAt>>
         [] s = "continue" /\ r.pos = pos ->
              /\ result' = "error"
              /\ pc' = "done"
              /\ UNCHANGED <<mainpc, pos, options, packet, decoded, failedAt>>
         [] s = "ok" ->
              /\ result' = "ok"
              /\ packet' = <<NewPacket(hdr, options)>>
              /\ pc' = "done"
              /\ failedAt' = IF Remaining(buf, pos) >= 1 THEN pos ELSE failedAt
              /\ UNCHANGED <<mainpc, pos, options, decoded>>
         [] s = "panic" ->
              /\ result' = "panic"
              /\ pc' = "done"
              /\ mainpc' = "aborted"
              /\ UNCHANGED <<pos, options, packet, decoded, failedAt>>
         [] OTHER ->
              /\ result' = s
              /\ pc' = "done"
              /\ failedAt' = pos
              /\ UNCHANGED <<mainpc, pos, options, packet, decoded>>
    /\ UNCHANGED <<buf, hdr>>

OptionResult(r) == OptionTrip(r, fold_many0_status(r.st))

ParseOption == OptionResult(parse_dhcp_option(buf, pos))

(***************************************************************************)
(* main, line 17: packet.unwrap(), println!, and round the loop            *)
(***************************************************************************)
Unwrap ==
    /\ mainpc = "parse"
    /\ pc = "done"
    /\ IF result = "ok"
       THEN /\ mainpc' = "recv"
            /\ pc' = "idle"
            /\ buf' = <<>>
            /\ pos' = 0
            /\ hdr' = <<>>
            /\ options' = <<>>
            /\ result' = "none"
            /\ packet' = <<>>
            /\ trace' = <<>>
            /\ decoded' = <<>>
            /\ failedAt' = -1
       ELSE /\ mainpc' = "aborted"
            /\ UNCHANGED <<pc, buf, pos, hdr, options, result, packet, trace,
                           decoded, failedAt>>

Next ==
    \/ Recv
    \/ ParseOpcode
    \/ ParseHwarp
    \/ ParseHlen
    \/ ParseHops
    \/ ParseXid
    \/ ParseSecs
    \/ ParseFlags
    \/ ParseCiaddr
    \/ ParseYiaddr
    \/ ParseSiaddr
    \/ ParseGiaddr
    \/ ParseChaddr
    \/ TakeReserved
    \/ VerifyCookie
    \/ ParseOption
    \/ Unwrap

Spec == Init /\ [][Next]_vars

(***************************************************************************)
(* Properties                                                              *)
(***************************************************************************)
Returned == mainpc = "parse" /\ pc = "done"

Finished == pc = "done"

ReachedOptions == trace /= <<>> /\ trace[Len(trace)][1] = "options"

Stored(id) == id /= Pad /\ id /= OptionEnd

Indices(hist) == 1..Len(hist)

\* The last place in hist where id occurs
LastIndex(hist, id) ==
    CHOOSE i \in Indices(hist) :
        /\ hist[i].id = id
        /\ \A j \in Indices(hist) : hist[j].id = id => j <= i

\* The mapping a history of decoded options stands for: every stored id,
\* with the value of its last occurrence
LastWins(hist) ==
    [id \in {hist[i].id : i \in {j \in Indices(hist) : Stored(hist[j].id)}} |->
        hist[LastIndex(hist, id)].opt]

EndIndices == {i \in Indices(decoded) : decoded[i].id = OptionEnd}

FirstEnd == CHOOSE i \in EndIndices : \A j \in EndIndices : i <= j

\* The fields before the cookie are ones the decoder accepts
PreCookieValid(b) ==
    /\ Len(b) >= 240
    /\ b[1] \in {1, 2}
    /\ b[2] = 1
    /\ <<b[11], b[12]>> \in {<<0, 0>>, <<128, 0>>}

CookieOf(b) == SubSeq(b, 237, 240)

\* C1: when an option of the stream fails its decode rule, parse returns an
\* error for the whole packet and no Packet holding the options before it.
C1_MalformedOptionFailsPacket ==
    (Finished /\ failedAt >= 0) =>
        (result \in {"error", "incomplete"} /\ packet = <<>>)

\* C2: parse always finishes by returning a Packet or an error value; it
\* never panics, whatever the datagram.
C2_ParseNeverPanics == result /= "panic"

\* C3: once the End code is read the decoder stops: decode succeeds, no
\* option is decoded after End, and the mapping is the one built from the
\* options before End.
C3_EndStopsDecoding ==
    (Finished /\ EndIndices /= {}) =>
        /\ result = "ok"
        /\ Len(decoded) = FirstEnd
        /\ options = LastWins(SubSeq(decoded, 1, FirstEnd - 1))

HeaderLayout ==
    << <<"opcode", 0>>, <<"htype", 1>>, <<"hlen", 2>>, <<"hops", 3>>,
       <<"xid", 4>>, <<"secs", 8>>, <<"flags", 10>>, <<"ciaddr", 12>>,
       <<"yiaddr", 16>>, <<"siaddr", 20>>, <<"giaddr", 24>>, <<"chaddr", 28>>,
       <<"reserved", 44>>, <<"cookie", 236>>, <<"options", 240>> >>

\* C4: on every successful decode the header fields were read in the stated
\* order at the stated offsets: the 16-byte hardware-address region from 28,
\* the 192 reserved bytes from 44, the cookie from 236 and the first option
\* code from 240.
C4_HeaderConsumes240 ==
    result = "ok" =>
        /\ trace = HeaderLayout
        /\ \A i \in Indices(decoded) :
              decoded[i].at = IF i = 1 THEN 240 ELSE decoded[i - 1].next

C4_Witness ==
    /\ result = "ok"
    /\ trace = HeaderLayout
    /\ Len(decoded) >= 2
    /\ decoded[1].at = 240

\* C5: with valid fields before it, a cookie that differs from 63 82 53 63
\* in any position makes parse return an error and no Packet, whatever
\* follows the cookie.
C5_BadCookieFails ==
    (PreCookieValid(buf) /\ CookieOf(buf) /= MagicCookie) =>
        /\ pc /= "options"
        /\ decoded = <<>>
        /\ packet = <<>>
        /\ Finished => result = "error"

C5_Witness ==
    /\ Returned
    /\ PreCookieValid(buf)
    /\ SubSeq(buf, 237, 239) = SubSeq(MagicCookie, 1, 3)
    /\ buf[240] /= MagicCookie[4]
    /\ Len(buf) > 240
    /\ result = "error"

\* C6: when the buffer runs out at an option boundary and no End code was
\* read, decode succeeds and the mapping holds every option decoded so far
\* (it is empty for the empty stream).
C6_ExhaustedWithoutEnd ==
    (Finished /\ ReachedOptions /\ Remaining(buf, pos) = 0 /\ EndIndices = {}) =>
        /\ result = "ok"
        /\ packet /= <<>>
        /\ \A i \in Indices(decoded) :
              Stored(decoded[i].id) => decoded[i].id \in DOMAIN packet[1].options
        /\ packet[1].options = LastWins(decoded)
        /\ decoded = <<>> => DOMAIN packet[1].options = {}

C6_Witness ==
    /\ Returned
    /\ result = "ok"
    /\ Remaining(buf, pos) = 0
    /\ EndIndices = {}
    /\ Len(decoded) >= 2
    /\ DOMAIN packet[1].options /= {}

\* C7: when an option code occurs more than once, the final mapping holds
\* one entry for it, with the value of its last occurrence; the entries of
\* the other codes are what they would be without it.
C7_LastWriteWins ==
    (Finished /\ result = "ok") =>
        /\ DOMAIN packet[1].options =
              {decoded[i].id : i \in {j \in Indices(decoded) : Stored(decoded[j].id)}}
        /\ \A i \in Indices(decoded) :
              Stored(decoded[i].id) =>
                  packet[1].options[decoded[i].id] =
                      decoded[LastIndex(decoded, decoded[i].id)].opt

C7_Witness ==
    /\ Returned
    /\ result = "ok"
    /\ \E i, j, k \in Indices(decoded) :
          /\ i < j
          /\ decoded[i].id = decoded[j].id
          /\ decoded[i].id.name = "Other"
          /\ decoded[i].opt /= decoded[j].opt
          /\ Stored(decoded[k].id)
          /\ decoded[k].id /= decoded[i].id
          /\ packet[1].options[decoded[i].id] = decoded[j].opt

\* buf without the byte at offset p
WithoutByte(b, p) == SubSeq(b, 1, p) \o SubSeq(b, p + 2, Len(b))

\* Two results of the same status and value, the first ending one byte on
SameButOneByte(with, without) ==
    /\ with.st = without.st
    /\ with.pos = without.pos + 1
    /\ with.val = without.val

\* C8: the mapping never has the key Pad or End; a Pad code consumes its
\* one byte only, and the stream decodes as it would with the Pad removed.
C8_PadIsOneByteAndNeverStored ==
    /\ Pad \notin DOMAIN options
    /\ OptionEnd \notin DOMAIN options
    /\ packet /= <<>> =>
          (Pad \notin DOMAIN packet[1].options
              /\ OptionEnd \notin DOMAIN packet[1].options)
    /\ \A i \in Indices(decoded) :
          decoded[i].id = Pad => decoded[i].next = decoded[i].at + 1
    /\ (pc = "options" /\ Remaining(buf, pos) >= 1 /\ buf[pos + 1] = DHCP_OPTION_PAD) =>
          SameButOneByte(parse_dhcp_options(buf, pos, options),
                         parse_dhcp_options(WithoutByte(buf, pos), pos, options))

C8_Witness ==
    /\ Returned
    /\ result = "ok"
    /\ \E i, j, k \in Indices(decoded) :
          /\ i < j
          /\ j < k
          /\ decoded[j].id = Pad
          /\ decoded[j].next = decoded[j].at + 1
          /\ Stored(decoded[i].id)
          /\ Stored(decoded[k].id)
          /\ decoded[i].id /= decoded[k].id
          /\ DOMAIN packet[1].options = {decoded[i].id, decoded[k].id}

\* The addresses of an IPv4 list option of length l whose value starts at
\* offset p
AddressesAt(b, p, l) ==
    [i \in 1..(l \div 4) |->
        <<b[p + 4 * (i - 1) + 1], b[p + 4 * (i - 1) + 2],
          b[p + 4 * (i - 1) + 3], b[p + 4 * (i - 1) + 4]>>]

\* r is the decode of the option at offset p of b, l its length byte
Ipv4ListDecoded(r, b, p, l) ==
    /\ (l >= 4 /\ l % 4 = 0 /\ Remaining(b, p) >= 2 + l) =>
          /\ r.st = "ok"
          /\ r.pos = p + 2 + l
          /\ r.val.opt.val = AddressesAt(b, p + 2, l)
    /\ (l < 4 \/ l % 4 /= 0) => r.st \in {"error", "incomplete"}

\* C9: a Router or DNS-server option whose length is a multiple of 4, at
\* least 4, and whose value bytes are present decodes to the list of its
\* length / 4 addresses, whatever the bytes; any other length fails.
C9_Ipv4ListDecodes ==
    (pc = "options" /\ Remaining(buf, pos) >= 2
        /\ buf[pos + 1] \in {DHCP_OPTION_ROUTER, DHCP_OPTION_DNSSERVER}) =>
        Ipv4ListDecoded(parse_dhcp_option(buf, pos), buf, pos, buf[pos + 2])

\* C10: a datagram whose decode returns an error does not end the receive
\* loop.
C10_ErrorDoesNotEndLoop ==
    ~(mainpc = "aborted" /\ result \in {"error", "incomplete"})

\* The entry e of decoded lies in b as a code byte, a length byte and the
\* bytes the length byte counts, and r, the decode of those bytes alone,
\* is the option of e
BuiltFromOwnBytes(e, b, r) ==
    /\ e.at + 2 <= Len(b)
    /\ e.next = e.at + 2 + b[e.at + 2]
    /\ e.next <= Len(b)
    /\ r.st = "ok"
    /\ r.pos = e.next - e.at
    /\ r.val.id = e.id
    /\ r.val.opt = e.opt

\* C11: every stored entry was decoded from its code byte, its length byte L
\* and the L bytes after it, all inside the buffer, and the next option code
\* is read 2 + L bytes after its code byte, whatever the type of the option.
C11_StoredOptionWithinLength ==
    /\ \A i \in Indices(decoded) :
          Stored(decoded[i].id) =>
              BuiltFromOwnBytes(decoded[i], buf,
                  parse_dhcp_option(SubSeq(buf, decoded[i].at + 1, decoded[i].next), 0))
    /\ \A i \in Indices(decoded) :
          i < Len(decoded) => decoded[i + 1].at = decoded[i].next
    /\ (pc = "options" /\ decoded /= <<>>) => pos = decoded[Len(decoded)].next
    /\ \A k \in DOMAIN options :
          \E i \in Indices(decoded) : decoded[i].id = k /\ decoded[i].opt = options[k]

C11_Witness ==
    /\ Returned
    /\ result = "ok"
    /\ \E i, j \in Indices(decoded) :
          /\ j = i + 1
          /\ Stored(decoded[i].id)
          /\ Stored(decoded[j].id)
          /\ decoded[i].id.name = "Router"
          /\ buf[decoded[i].at + 2] = 8
          /\ decoded[j].at = decoded[i].at + 10
          /\ decoded[j].next = Len(buf)
          /\ DOMAIN packet[1].options = {decoded[i].id, decoded[j].id}

====
